---- MODULE Spec2Model ----
(***************************************************************************)
(* Model of the animated photo view (src/src/AnimatedPhotoView.tsx): the   *)
(* controller facade, the open/close handlers of the view component, the   *)
(* two timers each request schedules, and the container geometry computed  *)
(* at every render.                                                        *)
(*                                                                         *)
(* The event loop is single threaded: every action below is one task (a    *)
(* call into the controller, a click, a timer callback, a resize event)    *)
(* followed by the re-render React performs for the state that task set.   *)
(* Time is kept as the remaining delay of every pending timer.             *)
(***************************************************************************)
EXTENDS Integers, Sequences, FiniteSets, TLC

VARIABLES
    visible,          \* useState(false), line 153
    opening,          \* useState(false), line 155
    closing,          \* useState(false), line 157
    updating,         \* useUpdate's useState(false), line 130
    source,           \* useState<ImageSourceResolver>(null), line 167
    animationTarget,  \* useState<AnimationTarget>(null), line 159
    body,             \* [bodyWidth, bodyHeight] of useWindowSize, lines 114-115
    timers,           \* pending setTimeout callbacks, in the order they were set
    controls,         \* the handlers the controller holds (_openView/_closeView)
    rendered,         \* what the latest render computed (closure values and style)
    dom,              \* current layout of the thumbnail element
    window,           \* current window.innerWidth / innerHeight
    natural,          \* naturalWidth / naturalHeight of the view's <img> (image.current)
    event             \* the task the event loop ran last

vars == <<visible, opening, closing, updating, source, animationTarget, body,
          timers, controls, rendered, dom, window, natural, event>>

viewState == <<visible, opening, closing, updating, source, animationTarget>>

----------------------------------------------------------------------------
(* Bounds of the model *)

\* most timers pending at once (each accepted request sets two)
MaxTimers == 4

\* time passes up to the next due timer, or by one of this many equal slices
\* of the duration: the instants at which a request may arrive
TimeSlices == 1

----------------------------------------------------------------------------
(* Numbers.  JavaScript numbers that the code divides are kept as reduced   *)
(* fractions n/d, so that innerWidth / 2 is exact for odd widths too.       *)
(* Each operation binds its operands once (x \in {a}), so that an operand   *)
(* that is itself a computation is evaluated once.                          *)

RECURSIVE GCD(_, _)
GCD(a, b) ==
    CHOOSE g \in { IF y = 0 THEN x ELSE GCD(y, x % y) : x \in {a}, y \in {b} } : TRUE

Quot(a, b) ==
    CHOOSE q \in { [n |-> x \div GCD(x, y), d |-> y \div GCD(x, y)] :
                       x \in {a}, y \in {b} } : TRUE

Num(a) == [n |-> a, d |-> 1]

Undefined == [kind |-> "undefined"]

Null == [kind |-> "null"]

\* v || 0 on a number or undefined
OrZero(v) == IF v = Undefined THEN Num(0) ELSE IF v.n = 0 THEN Num(0) ELSE v

\* v || 1 on a number
OrOne(v) == IF v = 0 THEN 1 ELSE v

RatLess(a, b) == \E x \in {a}, y \in {b} : x.n * y.d < y.n * x.d

RatSub(a, b) ==
    CHOOSE q \in { Quot(x.n * y.d - y.n * x.d, x.d * y.d) : x \in {a}, y \in {b} } : TRUE

RatMul(a, b) ==
    CHOOSE q \in { Quot(x.n * y.n, x.d * y.d) : x \in {a}, y \in {b} } : TRUE

\* a / b for b > 0
RatDiv(a, b) ==
    CHOOSE q \in { Quot(x.n * y.d, x.d * y.n) : x \in {a}, y \in {b} } : TRUE

\* const duration = 2000
duration == 2000


----------------------------------------------------------------------------
(* The page around the view *)

\* window sizes the host page takes (innerWidth, innerHeight)
Viewports == { [innerWidth |-> 1000, innerHeight |-> 1000],
               [innerWidth |-> 501,  innerHeight |-> 1000] }

\* one more window size, narrow and even, for the layout
LayoutViewports == Viewports \cup { [innerWidth |-> 500, innerHeight |-> 1000] }

\* the natural size of the view's image while it has not loaded
Unloaded == [naturalWidth |-> 0, naturalHeight |-> 0]

\* the natural sizes the loaded image may have: wide, square, tall, and an
\* image with a natural height but no natural width
NaturalSizes == { [naturalWidth |-> 2000, naturalHeight |-> 1000],
                  [naturalWidth |-> 1000, naturalHeight |-> 1000],
                  [naturalWidth |-> 500,  naturalHeight |-> 2000],
                  [naturalWidth |-> 0,    naturalHeight |-> 1000] }

\* The thumbnail <img> of the host page.  A layout gives what each DOM query
\* on it returns: rect is getBoundingClientRect() (viewport coordinates,
\* transforms applied), offsetWidth/offsetHeight the layout box, and x, y,
\* width, height the properties of HTMLImageElement.
Layouts ==
    { [rect |-> [x |-> 100, y |-> 100, width |-> 50, height |-> 50],
       offsetWidth |-> 50, offsetHeight |-> 50,
       x |-> 100, y |-> 100, width |-> 50, height |-> 50],
      [rect |-> [x |-> 20, y |-> 40, width |-> 40, height |-> 30],
       offsetWidth |-> 80, offsetHeight |-> 60,
       x |-> 20, y |-> 340, width |-> 80, height |-> 60] }

\* type ImageSource = string | HTMLImageElement
ImageSources == { [kind |-> "string", url |-> "a.jpg"],
                  [kind |-> "image", el |-> "thumb"] }

\* new CustomAnimationTarget(x, y, width, height)
CustomAnimationTarget(x, y, width, height) ==
    [kind |-> "custom", x |-> x, y |-> y, width |-> width, height |-> height]

\* HTMLElementAnimationTarget, had its constructor stored the bounds it finds
HTMLElementAnimationTarget_snapshot(target) ==
    [kind |-> "element", target |-> target,
     x |-> Num(dom.rect.x), y |-> Num(dom.rect.y),
     width |-> Num(dom.offsetWidth), height |-> Num(dom.offsetHeight)]

\* new HTMLElementAnimationTarget(target)
HTMLElementAnimationTarget(target) == [kind |-> "element", target |-> target]

\* the optional animationTarget argument callers pass to controller.openView:
\* nothing, a rectangle of their own, or a page element as it is
ExplicitTargets ==
    { Undefined,
      CustomAnimationTarget(Num(10), Num(20), Num(30), Num(40)),
      [kind |-> "image", el |-> "thumb"] }

\* the optional animationTargetElement argument of openViewFromElement
TargetElements == { Undefined, [kind |-> "image", el |-> "thumb"] }

----------------------------------------------------------------------------
(* ImageSourceResolver *)

ImageSourceResolver(src) == [source |-> src]

isString(r) == r.source.kind = "string"

isElement(r) == ~isString(r)

image(r) == r.source

----------------------------------------------------------------------------
(* Reading an animation target.  A field the object holds itself is read  *)
(* from it (CustomAnimationTarget); otherwise the getter of its class runs: *)
(* HTMLElementAnimationTarget and a bare image element query the page at    *)
(* every read.                                                              *)

TargetX(t, page) ==
    IF "x" \in DOMAIN t THEN t.x
    ELSE CASE t.kind = "element" -> Num(page.rect.x)
           [] t.kind = "image"   -> Num(page.x)
           [] OTHER              -> Undefined

TargetY(t, page) ==
    IF "y" \in DOMAIN t THEN t.y
    ELSE CASE t.kind = "element" -> Num(page.rect.y)
           [] t.kind = "image"   -> Num(page.y)
           [] OTHER              -> Undefined

TargetWidth(t, page) ==
    IF "width" \in DOMAIN t THEN t.width
    ELSE CASE t.kind = "element" -> Num(page.offsetWidth)
           [] t.kind = "image"   -> Num(page.width)
           [] OTHER              -> Undefined

TargetHeight(t, page) ==
    IF "height" \in DOMAIN t THEN t.height
    ELSE CASE t.kind = "element" -> Num(page.offsetHeight)
           [] t.kind = "image"   -> Num(page.height)
           [] OTHER              -> Undefined

----------------------------------------------------------------------------
(* One render of AnimatedPhotoView: the values its closures capture and    *)
(* the styles it hands to the renderer.                                    *)

\* image.current ? (naturalHeight || 1) / (naturalWidth || 1) : 1
imageAspectRatio(img) ==
    IF img = Null THEN Num(1)
    ELSE Quot(OrOne(img.naturalHeight), OrOne(img.naturalWidth))

\* bodyHeight / bodyWidth
screenAspectRatio(bdy) == Quot(bdy.bodyHeight, bdy.bodyWidth)

\* verticalMargins, had the comparison been <=
verticalMargins_nonstrict(iar, sar) == ~RatLess(sar, iar)

\* if (imageAspectRatio < screenAspectRatio) { ... verticalMargins = true }
verticalMargins(iar, sar) == RatLess(iar, sar)

\* left, had the two ratios been divided the other way round
left_inverted(bdy, iar, sar) ==
    LET w == Num(bdy.bodyWidth)
        l == RatDiv(RatSub(w, RatMul(RatDiv(iar, sar), w)), Num(2))
    IN  IF RatLess(l, Num(0)) THEN Num(0) ELSE l

\* left, had it not been clamped at 0
left_unclamped(bdy, iar, sar) ==
    LET w == Num(bdy.bodyWidth)
    IN  RatDiv(RatSub(w, RatMul(RatDiv(sar, iar), w)), Num(2))

\* let left = (bodyWidth - (screenAspectRatio / imageAspectRatio) * bodyWidth) / 2
\* if (left < 0) left = 0
left(bdy, iar, sar) ==
    LET w == Num(bdy.bodyWidth)
        l == RatDiv(RatSub(w, RatMul(RatDiv(sar, iar), w)), Num(2))
    IN  IF RatLess(l, Num(0)) THEN Num(0) ELSE l

\* opacity, had closing not forced it to 0
opacity_ignoresClosing(vis, upd, cls) == IF ~(vis /\ ~upd) THEN 0 ELSE 1

\* opacity: (!(visible && !updating) || closing) ? 0 : 1
opacity(vis, upd, cls) == IF ~(vis /\ ~upd) \/ cls THEN 0 ELSE 1

\* the CSS length 100%
Full == [percent |-> 100]

Render(vis, opn, cls, upd, tgt, bdy, page, img) ==
    LET pinned == upd \/ cls
        animating == cls \/ opn
        iar == imageAspectRatio(img)
        sar == screenAspectRatio(bdy)
        _width  == IF pinned THEN OrZero(TargetWidth(tgt, page))  ELSE Num(bdy.bodyWidth)
        _height == IF pinned THEN OrZero(TargetHeight(tgt, page)) ELSE Num(bdy.bodyHeight)
        vertical == verticalMargins(iar, sar)
        padding  == left(bdy, iar, sar)
    IN  [ animating |-> animating,
          _width  |-> _width,
          _height |-> _height,
          _left   |-> IF pinned THEN OrZero(TargetX(tgt, page)) ELSE Num(0),
          _top    |-> IF pinned THEN OrZero(TargetY(tgt, page)) ELSE Num(0),
          display |-> IF vis THEN "flex" ELSE "none",
          opacity |-> opacity(vis, upd, cls),
          width   |-> IF animating THEN _width ELSE Full,
          height  |-> IF animating THEN _height ELSE Full,
          transition |-> IF animating THEN duration ELSE 0,
          imageAspectRatio  |-> iar,
          verticalMargins   |-> vertical,
          horizontalMargins |-> ~vertical,
          left         |-> padding,
          paddingLeft  |-> IF pinned THEN Num(0) ELSE padding,
          paddingRight |-> IF pinned THEN Num(0) ELSE padding ]

\* the render that follows a task, from the state that task leaves; a task
\* that set no state causes no render.  The ref image.current is set once
\* the first render is committed.
Rerender ==
    rendered' = IF <<viewState, body>>' = <<viewState, body>> /\ rendered # Null
                THEN rendered
                ELSE Render(visible', opening', closing', updating',
                            animationTarget', body', dom',
                            IF rendered = Null THEN Null ELSE natural')

----------------------------------------------------------------------------
(* Timers.  A pending timer is [callback, delay]: which callback it runs   *)
(* and the time left until it is due.  The list is in setTimeout order.     *)

Timer(callback, delay) == [callback |-> callback, delay |-> delay]

\* the flags a request finds, kept in the event that records it
flags == <<visible, opening, closing, updating>>

RECURSIVE MinDelay(_)
MinDelay(queue) ==
    IF Len(queue) = 1 THEN queue[1].delay
    ELSE LET m == MinDelay(Tail(queue))
         IN  IF queue[1].delay < m THEN queue[1].delay ELSE m

\* index of the timer the event loop runs next: the first one that is due
NextDue(queue) ==
    CHOOSE i \in 1..Len(queue) :
        /\ queue[i].delay = 0
        /\ \A j \in 1..(i - 1) : queue[j].delay # 0

Remove(queue, i) == SubSeq(queue, 1, i - 1) \o SubSeq(queue, i + 1, Len(queue))

----------------------------------------------------------------------------
(* The handlers of the view *)

\* room for the two timers of one more accepted request
Room == Len(timers) + 2 <= MaxTimers

\* function openView(source, animationTarget), in a render whose animating
\* is anim
openView(anim, _source, target) ==
    IF anim
    THEN UNCHANGED <<viewState, timers>>
    ELSE /\ Room
         /\ visible' = TRUE
         /\ source' = _source
         /\ opening' = TRUE
         /\ animationTarget' = target
         /\ updating' = TRUE
         /\ timers' = timers \o <<Timer("update", 0),
                                  Timer("opened", duration)>>
         /\ UNCHANGED closing

\* closeView, had it no guard
closeView_unguarded(anim) ==
    /\ Room
    /\ updating' = TRUE
    /\ closing' = TRUE
    /\ timers' = timers \o <<Timer("update", 0),
                             Timer("closed", duration)>>
    /\ UNCHANGED <<visible, opening, source, animationTarget>>

\* function closeView(), in a render whose animating is anim
closeView(anim) ==
    IF anim
    THEN UNCHANGED <<viewState, timers>>
    ELSE /\ Room
         /\ updating' = TRUE
         /\ closing' = TRUE
         /\ timers' = timers \o <<Timer("update", 0),
                                  Timer("closed", duration)>>
         /\ UNCHANGED <<visible, opening, source, animationTarget>>

----------------------------------------------------------------------------
(* The controller *)

\* ResolveTarget, had it not taken an image source as the target
ResolveTarget_noImage(_source, target, win) ==
    IF target = Undefined
    THEN CustomAnimationTarget(Quot(win.innerWidth, 2), Quot(win.innerHeight, 2),
                               Num(10), Num(10))
    ELSE target

\* the animation target controller.openView hands to the bound handler
ResolveTarget(_source, target, win) ==
    LET t1 == IF target = Undefined /\ isElement(_source) THEN image(_source) ELSE target
    IN  IF t1 = Undefined
        THEN CustomAnimationTarget(Quot(win.innerWidth, 2), Quot(win.innerHeight, 2),
                                   Num(10), Num(10))
        ELSE t1

\* CallOpenView, had the controller started with handlers that do nothing
CallOpenView_quiet(op, src, target, resolved) ==
    /\ UNCHANGED <<body, controls, dom, window, natural>>
    /\ event' = [op |-> op, source |-> src, target |-> target,
                 from |-> flags, threw |-> FALSE]
    /\ IF ~controls.bound
       THEN UNCHANGED <<viewState, timers, rendered>>
       ELSE /\ openView(controls.animating, ImageSourceResolver(src), resolved)
            /\ Rerender

\* this._openView(_source, animationTarget): a TypeError while no view has
\* set the controls, the bound handler otherwise
CallOpenView(op, src, target, resolved) ==
    /\ UNCHANGED <<body, controls, dom, window, natural>>
    /\ event' = [op |-> op, source |-> src, target |-> target,
                 from |-> flags, threw |-> ~controls.bound]
    /\ IF ~controls.bound
       THEN UNCHANGED <<viewState, timers, rendered>>
       ELSE /\ openView(controls.animating, ImageSourceResolver(src), resolved)
            /\ Rerender

\* controller.openView(source, animationTarget?)
ControllerOpenView(src, target) ==
    CallOpenView("openView", src, target,
                 ResolveTarget(ImageSourceResolver(src), target, window))

\* controller.openViewFromElement(source, animationTargetElement?)
ControllerOpenViewFromElement(src, element) ==
    LET target == IF element # Undefined THEN HTMLElementAnimationTarget(element)
                  ELSE Undefined
    IN  CallOpenView("openViewFromElement", src, element,
                     ResolveTarget(ImageSourceResolver(src), target, window))

\* controller.closeView(), as the example's PhotoViewerUI calls it: the class
\* AnimatedPhotoViewController has no such member (it only stores _closeView),
\* so the call is a TypeError and reaches no handler
ControllerCloseView ==
    /\ event' = [op |-> "closeView", from |-> flags, threw |-> TRUE]
    /\ UNCHANGED <<viewState, body, timers, controls, rendered, dom, window, natural>>

----------------------------------------------------------------------------
(* The view *)

Init ==
    /\ visible = FALSE
    /\ opening = FALSE
    /\ closing = FALSE
    /\ updating = FALSE
    /\ source = Null
    /\ animationTarget = Null
    /\ body = Null
    /\ timers = <<>>
    /\ controls = [bound |-> FALSE]
    /\ rendered = Null
    /\ dom \in Layouts
    /\ window \in Viewports
    /\ natural = Unloaded
    /\ event = [op |-> "init"]

\* first render of <AnimatedPhotoView controller={controller}> and its
\* effect, which gives the controller the handlers of that render
Mount ==
    /\ ~controls.bound
    /\ body' = [bodyWidth  |-> IF window.innerWidth = 0 THEN 1000 ELSE window.innerWidth,
                bodyHeight |-> IF window.innerHeight = 0 THEN 1000 ELSE window.innerHeight]
    /\ UNCHANGED <<viewState, timers, dom, window, natural>>
    /\ Rerender
    /\ controls' = [bound |-> TRUE, animating |-> rendered'.animating]
    /\ event' = [op |-> "mount"]

\* a click event on the view's <img onClick={closeView}>: the handler of the
\* latest render runs
ImgClick ==
    /\ controls.bound
    /\ closeView(rendered.animating)
    /\ event' = [op |-> "click", from |-> flags]
    /\ UNCHANGED <<body, controls, dom, window, natural>>
    /\ Rerender

\* the event loop runs the next due timer
Timeout ==
    /\ timers # <<>>
    /\ MinDelay(timers) = 0
    /\ LET i == NextDue(timers)
           t == timers[i]
       IN  /\ timers' = Remove(timers, i)
           /\ event' = [op |-> "timeout", callback |-> t.callback]
           /\ CASE t.callback = "update" ->
                     /\ updating' = FALSE
                     /\ UNCHANGED <<visible, opening, closing>>
                [] t.callback = "opened" ->
                     /\ opening' = FALSE
                     /\ UNCHANGED <<visible, closing, updating>>
                [] t.callback = "closed" ->
                     /\ closing' = FALSE
                     /\ visible' = FALSE
                     /\ UNCHANGED <<opening, updating>>
    /\ UNCHANGED <<source, animationTarget, body, controls, dom, window, natural>>
    /\ Rerender

\* time passes, by a slice of the duration or up to the next due timer
Advance(d) ==
    /\ timers # <<>>
    /\ d > 0
    /\ d <= MinDelay(timers)
    /\ timers' = [i \in 1..Len(timers) |-> [timers[i] EXCEPT !.delay = @ - d]]
    /\ event' = [op |-> "wait"]
    /\ UNCHANGED <<viewState, body, controls, rendered, dom, window, natural>>

\* the window is resized: the listener of useWindowSize stores the new size
Resize(win) ==
    /\ win # window
    /\ window' = win
    /\ event' = [op |-> "resize"]
    /\ UNCHANGED <<viewState, timers, controls, dom, natural>>
    /\ IF controls.bound
       THEN /\ body' = [bodyWidth |-> win.innerWidth, bodyHeight |-> win.innerHeight]
            /\ Rerender
       ELSE UNCHANGED <<body, rendered>>

\* the page lays the thumbnail out anew (scroll, resize, transform); nothing
\* in the view listens to that
Relayout(layout) ==
    /\ layout # dom
    /\ dom' = layout
    /\ event' = [op |-> "layout"]
    /\ UNCHANGED <<viewState, body, timers, controls, rendered, window, natural>>

\* the view's <img> finishes loading: its natural size becomes known; the
\* view has no onLoad handler, so nothing is rendered anew
ImageLoad(size) ==
    /\ controls.bound
    /\ natural = Unloaded
    /\ natural' = size
    /\ event' = [op |-> "load"]
    /\ UNCHANGED <<viewState, body, timers, controls, rendered, dom, window>>

\* the delays time may pass by: up to the next due timer, or a slice of duration
Delays ==
    IF timers = <<>> THEN {}
    ELSE { MinDelay(timers) } \cup { k * (duration \div TimeSlices) : k \in 1..TimeSlices }

Next ==
    \/ Mount
    \/ \E src \in ImageSources, target \in ExplicitTargets : ControllerOpenView(src, target)
    \/ \E src \in ImageSources, element \in TargetElements :
           ControllerOpenViewFromElement(src, element)
    \/ ControllerCloseView
    \/ ImgClick
    \/ Timeout
    \/ \E d \in Delays : Advance(d)
    \/ \E win \in Viewports : Resize(win)
    \/ \E layout \in Layouts : Relayout(layout)

Spec == Init /\ [][Next]_vars

\* scheduled timer callbacks eventually run
FairSpec == Spec /\ WF_vars(Timeout) /\ WF_vars(\E d \in Delays : Advance(d))

\* The layout of the view is a function of what one render reads: the flags,
\* the body size and the natural size of the image.  LayoutSpec draws these
\* from every window size and every natural size, the image loading at any
\* moment, with the view driven one request at a time.
LayoutNext ==
    \/ Mount
    \/ timers = <<>> /\ \E src \in ImageSources, target \in ExplicitTargets :
                            ControllerOpenView(src, target)
    \/ timers = <<>> /\ ImgClick
    \/ Timeout
    \/ \E d \in Delays : Advance(d)
    \/ \E win \in LayoutViewports : Resize(win)
    \/ \E size \in NaturalSizes : ImageLoad(size)

LayoutSpec == Init /\ [][LayoutNext]_vars


----------------------------------------------------------------------------
(* The phases of the view *)

opens == {"openView", "openViewFromElement"}

IsClosed == ~visible /\ ~opening /\ ~closing /\ ~updating

IsOpen == visible /\ ~opening /\ ~closing /\ ~updating

Pending(callback) == { i \in 1..Len(timers) : timers[i].callback = callback }

----------------------------------------------------------------------------
(* Requests made during a transition *)

\* C1: an open request made through the controller, once the view has set
\* the controls, while opening or closing is true changes none of visible,
\* opening, closing, updating, source, animationTarget and sets no timer.
C1_OpenWhileAnimatingDropped ==
    [][ (controls.bound /\ (opening \/ closing) /\ event'.op \in opens)
        => UNCHANGED <<viewState, timers>> ]_vars

C3_NotOpeningAndClosing == ~(opening /\ closing)

\* C4: visible is true whenever opening or closing is true, and visible
\* turns false only at the step where the duration callback of a close runs.
C4_VisibleWhileAnimating ==
    /\ []((opening \/ closing) => visible)
    /\ [][ (visible /\ ~visible')
           => (event'.op = "timeout" /\ event'.callback = "closed") ]_vars

\* C5: a close request made while the view is closed (not visible, not
\* opening, not closing) changes no state and sets no timer.
C5_CloseWhenClosedNoOp ==
    [][ (controls.bound /\ ~visible /\ ~opening /\ ~closing /\ event'.op = "click")
        => UNCHANGED <<viewState, timers>> ]_vars


----------------------------------------------------------------------------
(* The cycle of one open request *)

\* the flags of the Open phase: visible, not opening, not closing, not updating
OpenFlags == <<TRUE, FALSE, FALSE, FALSE>>

\* what an open request made in the Open phase leaves when it returns
C6_ReopenAccepted ==
    (event.op \in opens /\ ~event.threw /\ event.from = OpenFlags)
       => /\ source = ImageSourceResolver(event.source)
          /\ animationTarget # Null
          /\ visible /\ opening /\ updating

\* C6: an open request made in the Open phase is accepted: right after it
\* source holds the new source, animationTarget is set, visible, opening and
\* updating are true; and, timer callbacks being run, the view comes to the
\* Open phase again.
C6_ReopenRestartsCycle ==
    /\ [](C6_ReopenAccepted)
    /\ (event.op \in opens /\ ~event.threw /\ event.from = OpenFlags) ~> IsOpen

\* C7: the opening phase ends only by the duration callback of the latest
\* accepted open request (no duration callback of an open is pending after
\* it), and by then the zero-delay callback has cleared updating, so that
\* (opening, updating), (opening, not updating), (not opening, not updating)
\* are seen in this order.
C7_OpenSequence ==
    [][ (opening /\ ~opening')
        => /\ event'.op = "timeout" /\ event'.callback = "opened"
           /\ { i \in 1..Len(timers') : timers'[i].callback = "opened" } = {}
           /\ ~updating /\ ~updating' ]_vars

\* C8: with timer callbacks eventually run, an opening view eventually is
\* open (visible, not opening, not updating), a closing view eventually is
\* closed, and no transition lasts forever.
C8_TransitionsComplete ==
    /\ opening ~> (visible /\ ~opening /\ ~updating)
    /\ closing ~> (~visible /\ ~closing /\ ~updating)
    /\ []<>(~opening /\ ~closing)


----------------------------------------------------------------------------
(* The animation target *)

\* the static rectangle at the centre of the window: 2x = innerWidth,
\* 2y = innerHeight, width = height = 10
IsCentreRectangle(t) ==
    /\ t.kind = "custom"
    /\ 2 * t.x.n = window.innerWidth * t.x.d
    /\ 2 * t.y.n = window.innerHeight * t.y.d
    /\ t.width = [n |-> 10, d |-> 1]
    /\ t.height = [n |-> 10, d |-> 1]

\* C9: right after a call of controller.openView or openViewFromElement
\* that reached the bound handler, visible and opening are true and
\* animationTarget is: the explicit target of openView when one was given;
\* else the image element when the source is one; else the rectangle
\* {innerWidth/2, innerHeight/2, 10, 10}, which is {500, 500, 10, 10} in a
\* 1000x1000 window.  openViewFromElement without an element resolves as
\* openView without a target.
C9_ResolvedTarget ==
    (event.op \in opens /\ ~event.threw /\ ~controls.animating) =>
        /\ visible /\ opening
        /\ (event.op = "openView" /\ event.target # Undefined)
              => animationTarget = event.target
        /\ (event.target = Undefined /\ event.source.kind = "image")
              => animationTarget = event.source
        /\ (event.target = Undefined /\ event.source.kind = "string")
              => /\ IsCentreRectangle(animationTarget)
                 /\ (window.innerWidth = 1000 /\ window.innerHeight = 1000)
                       => /\ animationTarget.x = [n |-> 500, d |-> 1]
                          /\ animationTarget.y = [n |-> 500, d |-> 1]

\* openViewFromElement was called with a URL and no element, in a window of
\* odd width
C9_Witness ==
    /\ event.op = "openViewFromElement" /\ ~event.threw
    /\ event.target = Undefined /\ event.source.kind = "string"
    /\ window.innerWidth = 501
    /\ animationTarget.x = [n |-> 501, d |-> 2]
    /\ visible /\ opening

\* C10: every render made while updating or closing is true with an element
\* bound animation target places the container at the bounding box position
\* the element has at that render and gives it the rendered box size the
\* element has at that render.
C10_LiveElementTarget ==
    [][ (/\ <<viewState, body>>' # <<viewState, body>>
         /\ updating' \/ closing'
         /\ animationTarget'.kind = "element")
        => /\ rendered'._left = [n |-> dom'.rect.x, d |-> 1]
           /\ rendered'._top = [n |-> dom'.rect.y, d |-> 1]
           /\ rendered'._width = [n |-> dom'.offsetWidth, d |-> 1]
           /\ rendered'._height = [n |-> dom'.offsetHeight, d |-> 1] ]_vars

\* the view closes towards an element whose bounding box and rendered box
\* differ, and the render of the close request has run
C10_Witness ==
    /\ event.op = "click" /\ event.from = OpenFlags
    /\ closing /\ updating
    /\ animationTarget.kind = "element"
    /\ dom.rect.width # dom.offsetWidth
    /\ rendered._left = [n |-> dom.rect.x, d |-> 1]
    /\ rendered._width = [n |-> dom.offsetWidth, d |-> 1]


----------------------------------------------------------------------------
(* The controller before and after the view has set its controls *)

\* C11: a call of openView or openViewFromElement made before any view has
\* set the controls raises no error and changes no state of the view.
C11_UnboundOpenNoEffect ==
    [][ (~controls.bound /\ event'.op \in opens)
        => (~event'.threw /\ UNCHANGED <<viewState, timers, rendered>>) ]_vars

\* C11 as amended: such a call changes no state of the view and sets no
\* timer, and it raises a TypeError.
C11_UnboundOpenThrows ==
    [][ (~controls.bound /\ event'.op \in opens)
        => (event'.threw /\ UNCHANGED <<viewState, timers, rendered, controls>>) ]_vars

\* openViewFromElement was called on the controller before the view mounted
C11_Witness ==
    /\ ~controls.bound
    /\ event.op = "openViewFromElement" /\ event.threw
    /\ IsClosed /\ timers = <<>> /\ rendered = Null

\* C12: once the view has set the controls, controller.closeView() called
\* in the Open phase runs the bound close handler: closing and updating
\* become true and the two timers of a close are set.
C12_ControllerCloseView ==
    [][ (controls.bound /\ IsOpen /\ event'.op = "closeView")
        => /\ ~event'.threw
           /\ closing' /\ updating' /\ visible'
           /\ Pending("closed")' # {} ]_vars


----------------------------------------------------------------------------
(* The aspect-fit layout *)

\* a step that ends with a render in which image.current is set
Renders == <<viewState, body>>' # <<viewState, body>> /\ rendered # Null

\* C13: in every render with a window of size W x H and an image of natural
\* size iw x ih, all positive, vertical centring is chosen exactly when
\* ih * W < H * iw, horizontal centring otherwise (so also when ih/iw = H/W),
\* and exactly one of the two is chosen.
C13_MarginMode ==
    [][ (Renders /\ natural'.naturalWidth > 0 /\ natural'.naturalHeight > 0)
        => /\ rendered'.verticalMargins
                <=> (natural'.naturalHeight * body'.bodyWidth
                       < body'.bodyHeight * natural'.naturalWidth)
           /\ rendered'.horizontalMargins
                <=> (natural'.naturalHeight * body'.bodyWidth
                       >= body'.bodyHeight * natural'.naturalWidth)
           /\ rendered'.verticalMargins # rendered'.horizontalMargins ]_vars

\* a square image is rendered in a square window: horizontal centring
C13_Witness ==
    /\ event.op = "resize"
    /\ natural = [naturalWidth |-> 1000, naturalHeight |-> 1000]
    /\ body = [bodyWidth |-> 1000, bodyHeight |-> 1000]
    /\ rendered.horizontalMargins /\ ~rendered.verticalMargins

\* (W * ih - H * iw) / (2 * ih), or 0 when that is negative: the value of
\* max(0, (W - (H/W) / (ih/iw) * W) / 2), as numerator and denominator
PaddingNumerator(W, H, iw, ih) ==
    IF W * ih - H * iw < 0 THEN 0 ELSE W * ih - H * iw

\* C14: in every render with an image of positive natural size the
\* horizontal padding the layout computes is >= 0 and is
\* max(0, (W - (H/W) / (ih/iw) * W) / 2); the left and the right padding are
\* the same value, that one outside the updating tick and the closing.
C14_HorizontalPadding ==
    [][ (Renders /\ natural'.naturalWidth > 0 /\ natural'.naturalHeight > 0)
        => /\ rendered'.left.n >= 0 /\ rendered'.left.d > 0
           /\ rendered'.left.n * (2 * natural'.naturalHeight)
                = rendered'.left.d * PaddingNumerator(body'.bodyWidth, body'.bodyHeight,
                                                      natural'.naturalWidth,
                                                      natural'.naturalHeight)
           /\ rendered'.paddingLeft = rendered'.paddingRight
           /\ rendered'.paddingLeft.n >= 0
           /\ ~(updating' \/ closing') => rendered'.paddingLeft = rendered'.left ]_vars

\* a tall image is rendered in a square window: 375 on either side
C14_Witness ==
    /\ event.op = "resize"
    /\ natural = [naturalWidth |-> 500, naturalHeight |-> 2000]
    /\ body = [bodyWidth |-> 1000, bodyHeight |-> 1000]
    /\ ~updating /\ ~closing
    /\ rendered.paddingLeft = [n |-> 375, d |-> 1]
    /\ rendered.paddingRight = [n |-> 375, d |-> 1]

\* a render outside every transition of the 2000x1000 image in the 500x1000
\* window
Scenario3 ==
    /\ Renders
    /\ natural' = [naturalWidth |-> 2000, naturalHeight |-> 1000]
    /\ body' = [bodyWidth |-> 500, bodyHeight |-> 1000]
    /\ ~opening' /\ ~closing' /\ ~updating'

\* C15: for the image 2000x1000 in the window 500x1000, outside every
\* transition, vertical centring is chosen and the horizontal padding is
\* greater than 0.
C15_Scenario3Positive ==
    [][ Scenario3 => (rendered'.verticalMargins /\ rendered'.paddingLeft.n > 0) ]_vars

\* C15 as amended: vertical centring is chosen and the horizontal padding
\* is 0 on both sides.
C15_Scenario3Zero ==
    [][ Scenario3
        => /\ rendered'.verticalMargins /\ ~rendered'.horizontalMargins
           /\ rendered'.paddingLeft = [n |-> 0, d |-> 1]
           /\ rendered'.paddingRight = [n |-> 0, d |-> 1] ]_vars

\* the open view was rendered for the 2000x1000 image in the 500x1000 window
C15_Witness ==
    /\ event.op = "resize"
    /\ natural = [naturalWidth |-> 2000, naturalHeight |-> 1000]
    /\ body = [bodyWidth |-> 500, bodyHeight |-> 1000]
    /\ IsOpen
    /\ rendered.verticalMargins
    /\ rendered.paddingLeft = [n |-> 0, d |-> 1]

\* C20: the image aspect ratio a render uses is ih/iw when both natural
\* dimensions are positive, and 1 when the image is not loaded or one of
\* them is 0; it is never 0, so the padding never divides by zero.
C20_ImageAspectRatio ==
    /\ [][ Renders
           => /\ rendered'.imageAspectRatio.n > 0 /\ rendered'.imageAspectRatio.d > 0
              /\ IF natural'.naturalWidth > 0 /\ natural'.naturalHeight > 0
                 THEN rendered'.imageAspectRatio.n * natural'.naturalWidth
                        = rendered'.imageAspectRatio.d * natural'.naturalHeight
                 ELSE rendered'.imageAspectRatio = [n |-> 1, d |-> 1] ]_vars
    /\ [][ (rendered = Null /\ rendered' # Null)
           => rendered'.imageAspectRatio = [n |-> 1, d |-> 1] ]_vars

----------------------------------------------------------------------------
(* Timers and the updating tick *)

DurationCallbacks == Pending("opened") \cup Pending("closed")

\* C16: in every reachable state at most one duration-delay callback (the
\* one that ends opening, or the one that ends closing and clears visible)
\* is pending, whatever the interleaving of requests and timer firings.
C16_OneTransitionTimer == Cardinality(DurationCallbacks) <= 1

\* C17: updating implies opening or closing; a request that is accepted
\* finds updating false, raises it and schedules one zero-delay callback;
\* and when a duration callback runs, updating has been cleared.
C17_UpdatingOneTick ==
    /\ [](updating => (opening \/ closing))
    /\ [][ (event'.op \in (opens \cup {"click"}) /\ timers' # timers)
           => /\ ~updating /\ updating'
              /\ Cardinality(Pending("update")') = Cardinality(Pending("update")) + 1
              /\ Cardinality(Pending("update")') = 1 ]_vars
    /\ [][ (event'.op = "timeout" /\ event'.callback \in {"opened", "closed"})
           => ~updating ]_vars

----------------------------------------------------------------------------
(* What is rendered in each phase *)

\* C18: once the view is mounted, the background opacity is 1 exactly in
\* the Open phase (visible, not opening, not closing, not updating) and 0
\* in every other state.
C18_OpaqueOnlyWhenOpen ==
    rendered # Null => (rendered.opacity = 1 <=> IsOpen)

\* C18 as amended: the opacity is 1 exactly when visible is true and
\* updating and closing are false, which includes the opening transition
\* after its updating tick, and 0 in every other state.
C18_OpaqueWhenShownAndSettling ==
    rendered # Null
        => /\ rendered.opacity \in {0, 1}
           /\ rendered.opacity = 1 <=> (visible /\ ~updating /\ ~closing)

\* the view is opening, its updating tick is over, the background is opaque
C18_Witness ==
    /\ rendered # Null
    /\ visible /\ opening /\ ~updating /\ ~closing
    /\ rendered.opacity = 1

\* C19: a render with updating or closing true, and an animation target
\* set, puts the container at the target's x/y with the target's
\* width/height (a coordinate the target lacks counting as 0) and with
\* padding 0; every other render puts it at (0,0) with the size of the
\* whole window and the aspect-fit padding.
C19_PinnedToTarget ==
    [][ Renders
        => IF updating' \/ closing'
           THEN animationTarget' # Null
                => /\ rendered'._left = OrZero(TargetX(animationTarget', dom'))
                   /\ rendered'._top = OrZero(TargetY(animationTarget', dom'))
                   /\ rendered'.width = OrZero(TargetWidth(animationTarget', dom'))
                   /\ rendered'.height = OrZero(TargetHeight(animationTarget', dom'))
                   /\ rendered'.paddingLeft = [n |-> 0, d |-> 1]
                   /\ rendered'.paddingRight = [n |-> 0, d |-> 1]
           ELSE /\ rendered'._left = [n |-> 0, d |-> 1]
                /\ rendered'._top = [n |-> 0, d |-> 1]
                /\ rendered'.width \in {Full, [n |-> body'.bodyWidth, d |-> 1]}
                /\ rendered'.height \in {Full, [n |-> body'.bodyHeight, d |-> 1]}
                /\ rendered'.paddingLeft = rendered'.left
                /\ rendered'.paddingRight = rendered'.left ]_vars

====
